---- MODULE Spec2Model ----
(***************************************************************************)
(* Model of the resilience policy engine (packages/resilience):            *)
(* withResilience wraps an asynchronous operation with the policies        *)
(* timeout -> bulkhead -> retry (built on the cockatiel library) and an    *)
(* outer fallback / error-normalisation layer.                             *)
(*                                                                         *)
(* One wrapped handle is modelled.  Calls are the concurrent invocations   *)
(* of that handle; each call runs the pipeline of resilience.ts:89-151.    *)
(* The steps of a call are the points at which the JavaScript event loop   *)
(* can interleave it with other calls: the operation settling, a backoff   *)
(* sleep ending, the timeout timer firing and the microtask in which the   *)
(* bulkhead re-executes a dequeued waiter.                                 *)
(***************************************************************************)
EXTENDS Integers, Sequences, FiniteSets, TLC

\* ------------------------------------------------------------------ bounds
NumCalls == 3
MaxAttempts == 1
MaxConcurrent == 1
MaxQueue == 1
MaxRetries == 2
MaxBackoffSteps == 5
MaxJitterFactor == 3
NumHandles == 2

\* ------------------------------------------------------- program constants
RETRY_DEFAULTS_attempts == 3
TIMEOUT_DEFAULT == 30000
BULKHEAD_DEFAULTS_maxQueue == 100

Calls == 1..NumCalls

\* ------------------------------------------------------------ configuration
\* retry.shouldRetry: left out (isRetryableError is used, resilience.ts:77), or a
\* predicate of the caller, given by the errors of the operation it accepts.
DefaultFilter == [custom |-> FALSE, accepts |-> {}]

RetryChoices ==
  {[on |-> FALSE, attempts |-> 0, shouldRetry |-> DefaultFilter]} \cup
  {[on |-> TRUE, attempts |-> n, shouldRetry |-> DefaultFilter] : n \in 1..MaxAttempts}

BulkheadChoices ==
  {[on |-> FALSE, maxConcurrent |-> 0, maxQueue |-> 0]} \cup
  {[on |-> TRUE, maxConcurrent |-> m, maxQueue |-> q] : m \in 1..MaxConcurrent, q \in 0..MaxQueue}

TimeoutChoices == {[on |-> FALSE, ms |-> 0], [on |-> TRUE, ms |-> 100]}

FallbackChoices == {"none", "value"}

\* A fallback that is a function: it returns a value, returns a promise of a
\* value, or fails, with or without the word retry in the message of its error.
FallbackFunctionChoices == {"fn", "asyncFn", "fnThrows", "fnThrowsRetry"}

\* ResilienceOptions: retry, bulkhead, timeout, fallback, and whether a metrics
\* sink (with every callback) and a logger are given.  The handles of the
\* specifications below have the metrics sink and no logger, but for SinkSpec.
ResilienceOptions ==
  [retry : RetryChoices, bulkhead : BulkheadChoices, timeout : TimeoutChoices,
   fallback : FallbackChoices, metrics : {TRUE}, logger : {FALSE}]

\* Handles wrapped with a fallback, a value or a function.
OptionsWithFallback ==
  [retry : RetryChoices, bulkhead : BulkheadChoices, timeout : TimeoutChoices,
   fallback : {"value"} \cup FallbackFunctionChoices, metrics : {TRUE}, logger : {FALSE}]

\* Handles wrapped with a retry policy of up to MaxRetries attempts, alone or
\* together with one of the two outer policies, bulkhead and timeout.
OptionsWithRetry ==
  {o \in [retry : {[on |-> TRUE, attempts |-> n, shouldRetry |-> DefaultFilter] :
                      n \in 1..MaxRetries},
          bulkhead : BulkheadChoices, timeout : TimeoutChoices,
          fallback : FallbackChoices, metrics : {TRUE}, logger : {FALSE}] :
     ~(o.bulkhead.on /\ o.timeout.on)}

\* Handles whose retry options carry a shouldRetry predicate of the caller.
OptionsWithFilter ==
  [retry : {[on |-> TRUE, attempts |-> n, shouldRetry |-> [custom |-> TRUE, accepts |-> A]] :
              n \in 1..MaxAttempts, A \in SUBSET {"E500", "E404", "ENetRetry"}},
   bulkhead : BulkheadChoices, timeout : TimeoutChoices,
   fallback : {"none"}, metrics : {TRUE}, logger : {FALSE}]

\* Handles wrapped with or without a metrics sink and with or without a logger.
OptionsWithSinks ==
  [retry : RetryChoices, bulkhead : BulkheadChoices, timeout : TimeoutChoices,
   fallback : FallbackChoices, metrics : BOOLEAN, logger : BOOLEAN]

\* ------------------------------------------------------------------- errors
\* Errors the operation can throw, by name; their observable attributes follow.
OpErrorNames == {"E500", "E404", "ENetRetry"}

\* error.status (0: the error carries no status)
ErrStatus(name) == CASE name = "E500" -> 500 [] name = "E404" -> 404 [] OTHER -> 0

\* error.code ("": none)
ErrCode(name) == IF name = "ENetRetry" THEN "ECONNRESET" ELSE ""

\* error.message.includes('retry'):
\* "HTTP Error 500", "HTTP Error 404", "connection reset, retry later"
ErrMessageHasRetry(name) == name = "ENetRetry"

OpError(name, inv) == [kind |-> "OpError", name |-> name, inv |-> inv]

CockatielBulkheadRejectedError == [kind |-> "CockatielBulkheadRejectedError"]
CockatielTimeoutError == [kind |-> "CockatielTimeoutError"]

RetryExhaustedError(attempts, lastError) ==
  [kind |-> "RetryExhaustedError", attempts |-> attempts, lastError |-> lastError]

TimeoutError(duration) == [kind |-> "TimeoutError", duration |-> duration]

BulkheadRejectedError(queueSize, maxQueue) ==
  [kind |-> "BulkheadRejectedError", queueSize |-> queueSize, maxQueue |-> maxQueue]

NON_RETRYABLE_STATUS_CODES == {400, 401, 403, 404, 422}
NETWORK_ERROR_CODES == {"ECONNRESET", "ETIMEDOUT", "ECONNREFUSED", "ENETUNREACH"}

\* Values an operation can throw, as the classifier sees them: an Error instance
\* or another object, at most one of the properties status, statusCode and
\* response.status (a number; status 0 with statusAt "none": no such property),
\* code ("": none) and message.
ErrorStatuses == {400, 401, 403, 404, 422, 200, 429, 499, 500, 503}
ErrorCodes == {""} \cup NETWORK_ERROR_CODES \cup {"EACCES"}
ErrorMessages ==
  {"HTTP Error", "Unknown error", "fetch failed", "FETCH FAILED", "Network error",
   "Failed to fetch", "connection reset, retry later"}

ErrorValues ==
  {e \in [isError : BOOLEAN, statusAt : {"none", "status", "statusCode", "response"},
          status : ErrorStatuses \cup {0}, code : ErrorCodes, message : ErrorMessages] :
     (e.statusAt = "none") <=> (e.status = 0)}

\* String.prototype.toLowerCase, on the messages of ErrorMessages
ToLowerCase(message) ==
  CASE message = "HTTP Error" -> "http error"
    [] message = "Unknown error" -> "unknown error"
    [] message = "FETCH FAILED" -> "fetch failed"
    [] message = "Network error" -> "network error"
    [] message = "Failed to fetch" -> "failed to fetch"
    [] OTHER -> message

\* String.prototype.includes, on the lower-cased messages and the two needles of
\* isNetworkError
Includes(text, needle) ==
  \/ needle = "fetch failed" /\ text = "fetch failed"
  \/ needle = "network" /\ text = "network error"

\* defaults.ts isHttpError
isHttpError(error) == error.isError /\ error.statusAt # "none"

\* defaults.ts getStatusCode (0: undefined)
getStatusCode(error) == IF error.statusAt = "none" THEN 0 ELSE error.status

\* Variant: only the error code is looked at, not the message.
isNetworkError_CodeOnly(error) == error.isError /\ error.code \in NETWORK_ERROR_CODES

\* defaults.ts isNetworkError
isNetworkError(error) ==
  /\ error.isError
  /\ \/ error.code # "" /\ error.code \in NETWORK_ERROR_CODES
     \/ Includes(ToLowerCase(error.message), "fetch failed")
     \/ Includes(ToLowerCase(error.message), "network")

\* Variant: the network test comes first.
isRetryableError_NetworkFirst(error) ==
  IF isNetworkError(error) THEN TRUE
  ELSE IF isHttpError(error) /\ getStatusCode(error) # 0
            /\ getStatusCode(error) \in NON_RETRYABLE_STATUS_CODES THEN FALSE
  ELSE isHttpError(error) /\ getStatusCode(error) # 0 /\ getStatusCode(error) >= 500

\* defaults.ts isRetryableError
isRetryableError(error) ==
  IF isHttpError(error) /\ getStatusCode(error) # 0
       /\ getStatusCode(error) \in NON_RETRYABLE_STATUS_CODES THEN FALSE
  ELSE IF isHttpError(error) /\ getStatusCode(error) # 0 /\ getStatusCode(error) >= 500
    THEN TRUE
  ELSE IF isNetworkError(error) THEN TRUE
  ELSE FALSE

\* The Error instances the operation throws in the calls of the handle:
\* createHttpError(500), createHttpError(404) and a connection reset.
ErrorNamed(name) ==
  [isError |-> TRUE,
   statusAt |-> IF ErrStatus(name) = 0 THEN "none" ELSE "status",
   status |-> ErrStatus(name),
   code |-> ErrCode(name),
   message |-> IF ErrMessageHasRetry(name) THEN "connection reset, retry later"
               ELSE "HTTP Error"]

\* message.includes('retry') of any error value.  RetryExhaustedError's message is
\* `Retry exhausted after N attempts: ${lastError.message}` (capital R), so it
\* contains 'retry' exactly when the message of lastError does.
RECURSIVE MessageIncludesRetry(_)
MessageIncludesRetry(error) ==
  CASE error.kind = "OpError" -> ErrMessageHasRetry(error.name)
    [] error.kind = "RetryExhaustedError" -> MessageIncludesRetry(error.lastError)
    [] error.kind = "FallbackError" -> error.retryInMessage
    [] OTHER -> FALSE

\* Variant: the rejection always reports an empty queue.
transformCockatielError_EmptyQueue(error, config) ==
  IF error.kind = "CockatielBulkheadRejectedError"
    THEN BulkheadRejectedError(0, config.maxQueue)
  ELSE IF error.kind = "CockatielTimeoutError"
    THEN TimeoutError(config.timeout)
  ELSE IF MessageIncludesRetry(error)
    THEN RetryExhaustedError(config.attempts, error)
  ELSE error

transformCockatielError(error, config) ==
  IF error.kind = "CockatielBulkheadRejectedError"
    THEN BulkheadRejectedError(config.maxQueue, config.maxQueue)
  ELSE IF error.kind = "CockatielTimeoutError"
    THEN TimeoutError(config.timeout)
  ELSE IF MessageIncludesRetry(error)
    THEN RetryExhaustedError(config.attempts, error)
  ELSE error


\* -------------------------------------------------------------------- state
VARIABLES
  options,       \* the ResilienceOptions the handle was wrapped with
  active,        \* bulkhead: number of executions holding a slot
  queue,         \* bulkhead: waiting calls, oldest first
  outer,         \* per call: state of the promise the caller holds
  result,        \* per call: the value or error the caller received
  inner,         \* per call: position of the composed pipeline
  retries,       \* per call: the retry loop's counter
  attemptCount,  \* per call: invocations of the operation (executeWithTracking)
  aborted,       \* per call: the timeout's abort signal
  timerArmed,    \* per call: the timeout timer is pending
  holds,         \* per call: the call occupies a bulkhead slot
  lastOutcome,   \* per call: how the latest invocation of the operation ended
  wasQueued,     \* per call: the call was put into the wait queue at some point
  waiters,       \* calls waiting for a slot, in the order in which they first queued
  events,        \* per call: what the call has reported (metrics, fallback) so far
  classified,    \* the classifier on its own: an error value and the verdict on it
  backoff,       \* a backoff on its own: the retry options and the delays generated
  handles        \* several handles side by side: their bulkheads and their calls

vars == <<options, active, queue, outer, result, inner, retries, attemptCount,
          aborted, timerArmed, holds, lastOutcome, wasQueued, waiters, events,
          classified, backoff, handles>>

NoResult == [kind |-> "none"]
FallbackValue == [kind |-> "Fallback"]
Value(inv) == [kind |-> "Value", inv |-> inv]

\* What a fallback function produces from the error it is called with.
FallbackResult(error) == [kind |-> "FallbackResult", from |-> error]
FallbackError(kind) == [kind |-> "FallbackError", retryInMessage |-> kind = "fnThrowsRetry"]
Promise(v) == [kind |-> "Promise", value |-> v]

\* fallback(transformedError), for the kinds of function
FallbackReturns(kind, error) ==
  CASE kind = "fn" -> FallbackResult(error)
    [] kind = "asyncFn" -> Promise(FallbackResult(error))
    [] OTHER -> FallbackError(kind)

FallbackThrows(kind) == kind \in {"fnThrows", "fnThrowsRetry"}

\* `return x` in an async function: a promise is adopted, and the caller of the
\* function receives what the promise settles with.
Await(x) == IF x.kind = "Promise" THEN x.value ELSE x

\* Nothing reported: no metrics callback has run, the fallback was not called.
NoEvents ==
  [pipeline |-> NoResult, metric |-> [kind |-> "none"],
   fallbackCalls |-> 0, fallbackArg |-> NoResult,
   onRetry |-> 0, onTimeout |-> 0, onBulkheadRejected |-> 0,
   outcomes |-> 0, logged |-> 0,
   lastRetry |-> [attempt |-> 0, maxAttempts |-> 0],
   order |-> <<>>]

\* The classifier and the backoff are not looked at on their own, and there is
\* the one handle.
NoVerdict == [verdict |-> "none"]
NoBackoff == [kind |-> "none"]
NoHandles == [kind |-> "none"]
OnlyCalls == classified = NoVerdict /\ backoff = NoBackoff /\ handles = NoHandles

\* No call has been made yet.
NoCalls ==
  /\ active = 0
  /\ queue = <<>>
  /\ outer = [c \in Calls |-> "idle"]
  /\ result = [c \in Calls |-> NoResult]
  /\ inner = [c \in Calls |-> "none"]
  /\ retries = [c \in Calls |-> 0]
  /\ attemptCount = [c \in Calls |-> 0]
  /\ aborted = [c \in Calls |-> FALSE]
  /\ timerArmed = [c \in Calls |-> FALSE]
  /\ holds = [c \in Calls |-> FALSE]
  /\ lastOutcome = [c \in Calls |-> "none"]
  /\ wasQueued = [c \in Calls |-> FALSE]
  /\ waiters = <<>>
  /\ events = [c \in Calls |-> NoEvents]

Init == options \in ResilienceOptions /\ NoCalls /\ OnlyCalls

\* ------------------------------------------------- outcome of a failed call
\* The errorConfig withResilience passes on (timeout ?? TIMEOUT_DEFAULT, ...)
ErrorConfig(attempts) ==
  [timeout |-> IF options.timeout.on THEN options.timeout.ms ELSE TIMEOUT_DEFAULT,
   maxQueue |-> IF options.bulkhead.on THEN options.bulkhead.maxQueue
                ELSE BULKHEAD_DEFAULTS_maxQueue,
   attempts |-> attempts]

\* Variant: a timeout is rethrown even though a fallback is configured.
executeWithFallback_NotForTimeout(error) ==
  LET transformedError == transformCockatielError(error, ErrorConfig(0)) IN
  IF options.fallback = "none" \/ error.kind = "CockatielTimeoutError"
    THEN [threw |-> TRUE, v |-> transformedError, calls |-> 0, arg |-> NoResult,
          logs |-> 0]
  ELSE IF options.fallback = "value"
    THEN [threw |-> FALSE, v |-> FallbackValue, calls |-> 0, arg |-> NoResult,
          logs |-> 1]
  ELSE [threw |-> FallbackThrows(options.fallback),
        v |-> Await(FallbackReturns(options.fallback, transformedError)),
        calls |-> 1, arg |-> transformedError, logs |-> 1]

\* executeWithFallback's catch branch, for a pipeline that rejected with error
executeWithFallback(error) ==
  LET transformedError == transformCockatielError(error, ErrorConfig(0)) IN
  IF options.fallback = "none"
    THEN [threw |-> TRUE, v |-> transformedError, calls |-> 0, arg |-> NoResult,
          logs |-> 0]
  ELSE IF options.fallback = "value"
    THEN [threw |-> FALSE, v |-> FallbackValue, calls |-> 0, arg |-> NoResult,
          logs |-> 1]
  ELSE [threw |-> FallbackThrows(options.fallback),
        v |-> Await(FallbackReturns(options.fallback, transformedError)),
        calls |-> 1, arg |-> transformedError, logs |-> 1]

\* withResilience's wrapped function, for a pipeline that rejected with error
FailedCall(error) ==
  LET r == executeWithFallback(error) IN
  IF r.threw
    THEN [status |-> "rejected",
          result |-> transformCockatielError(r.v,
                       ErrorConfig(IF options.retry.on THEN options.retry.attempts
                                   ELSE RETRY_DEFAULTS_attempts)),
          fallbackCalls |-> r.calls, fallbackArg |-> r.arg, logs |-> r.logs + 1]
    ELSE [status |-> "resolved", result |-> r.v,
          fallbackCalls |-> r.calls, fallbackArg |-> r.arg, logs |-> r.logs + 1]

\* Variant: the fallback is applied to a pipeline that succeeded as well.
SucceededCall_Fallback(value) ==
  IF options.fallback = "none"
    THEN [status |-> "resolved", result |-> value,
          fallbackCalls |-> 0, fallbackArg |-> NoResult, logs |-> 1]
  ELSE IF options.fallback = "value"
    THEN [status |-> "resolved", result |-> FallbackValue,
          fallbackCalls |-> 0, fallbackArg |-> NoResult, logs |-> 1]
  ELSE [status |-> "resolved", result |-> FallbackResult(value),
        fallbackCalls |-> 1, fallbackArg |-> value, logs |-> 1]

\* Variant: the sinks are called without the optional chaining, so that a
\* handle without a metrics sink or without a logger fails with a TypeError.
SucceededCall_NeedsSinks(value) ==
  IF options.metrics /\ options.logger
    THEN [status |-> "resolved", result |-> value,
          fallbackCalls |-> 0, fallbackArg |-> NoResult, logs |-> 1]
    ELSE [status |-> "rejected", result |-> [kind |-> "TypeError"],
          fallbackCalls |-> 0, fallbackArg |-> NoResult, logs |-> 0]

\* withResilience's wrapped function, for a pipeline that resolved with value:
\* executeWithFallback returns what execute() resolved with, and the wrapped
\* function returns it; logger?.info is the one call of the logger.
SucceededCall(value) ==
  [status |-> "resolved", result |-> value, fallbackCalls |-> 0, fallbackArg |-> NoResult,
   logs |-> 1]

\* Variant: one attempt counter for the handle, shared by its calls.
AttemptsMade_Shared(c) ==
  LET RECURSIVE Sum(_)
      Sum(S) == IF S = {} THEN 0
                ELSE LET x == CHOOSE y \in S : TRUE IN attemptCount[x] + Sum(S \ {x})
  IN Sum(Calls)

\* attemptCount, the local of the call (resilience.ts:91), as the metrics
\* callbacks read it
AttemptsMade(c) == attemptCount[c]

\* metrics?.onRetry?.(event) and the like: n callbacks run if the handle has a
\* metrics sink, none if it has not.
Emitted(n) == IF options.metrics THEN n ELSE 0

\* The events the metrics sink has received, in the order of the callbacks.
Seen(names) == IF options.metrics THEN names ELSE <<>>

\* logger?.warn(...) and the like: n calls reach the logger if there is one.
Logged(n) == IF options.logger THEN n ELSE 0

\* The logger.debug calls of retryPolicy.onFailure / onSuccess, which run for
\* every invocation of the operation that ends under a retry policy.
RetryPolicyLogs == IF options.retry.on THEN Logged(1) ELSE 0

\* Variant: the Failure event is emitted after the Success event.
Reported_Both(ev, c, outcome, call) ==
  [ev EXCEPT !.pipeline = outcome,
             !.metric = [kind |-> "failure", attempts |-> AttemptsMade(c),
                         error |-> call.result],
             !.outcomes = @ + Emitted(2),
             !.order = @ \o Seen(<<"Success", "Failure">>),
             !.logged = @ + Logged(call.logs),
             !.fallbackCalls = @ + call.fallbackCalls,
             !.fallbackArg = call.fallbackArg]

\* The wrapped function of call c ends: metrics.onSuccess({attempts, ...}) after
\* executeWithFallback returned, metrics.onFailure({attempts, error, ...}) after
\* it threw, with the calls of the logger made on the way (call.logs).  outcome
\* is what composedPolicy.execute settled with.
Reported(ev, c, outcome, call) ==
  [ev EXCEPT !.pipeline = outcome,
             !.metric = IF ~options.metrics THEN @
                        ELSE IF call.status = "resolved"
                          THEN [kind |-> "success", attempts |-> AttemptsMade(c)]
                          ELSE [kind |-> "failure", attempts |-> AttemptsMade(c),
                                error |-> call.result],
             !.outcomes = @ + Emitted(1),
             !.order = @ \o Seen(<<IF call.status = "resolved" THEN "Success" ELSE "Failure">>),
             !.logged = @ + Logged(call.logs),
             !.fallbackCalls = @ + call.fallbackCalls,
             !.fallbackArg = call.fallbackArg]

\* ---------------------------------------------------- cockatiel's decisions
\* Variant: a slot is handed out while the slots are all taken.
BulkheadAdmits_OffByOne(act, capacity) == act <= capacity

\* BulkheadPolicy.execute: this.active < this.capacity
BulkheadAdmits(act, capacity) == act < capacity

\* Variant: a waiter is queued while the queue is full.
BulkheadQueues_OffByOne(len, queueCapacity) == len <= queueCapacity

\* BulkheadPolicy.execute: this.queue.length < this.queueCapacity
BulkheadQueues(len, queueCapacity) == len < queueCapacity

\* Variant: the retry loop does not look at the abort signal.
RetryAgain_IgnoresAbort(isAborted, retriesSoFar, maxAttempts) ==
  retriesSoFar < maxAttempts

\* RetryPolicy.execute: !signal.aborted && retries < this.options.maxAttempts
RetryAgain(isAborted, retriesSoFar, maxAttempts) ==
  ~isAborted /\ retriesSoFar < maxAttempts

\* Variant: every error is handled by the retry policy.
shouldRetry_Always(name) == TRUE

\* Variant: the caller's predicate is merged with the default classifier.
shouldRetry_Merged(name) ==
  \/ options.retry.shouldRetry.custom /\ name \in options.retry.shouldRetry.accepts
  \/ isRetryableError(ErrorNamed(name))

\* handleWhen((error) => shouldRetry(error)) with
\* shouldRetry = retry.shouldRetry ?? isRetryableError
shouldRetry(name) ==
  IF options.retry.shouldRetry.custom
    THEN name \in options.retry.shouldRetry.accepts
    ELSE isRetryableError(ErrorNamed(name))


\* ------------------------------------------------------------ step fragments
\* Variant: a promise that is already settled is settled again.
Settle_Overwrite(c, status, res) ==
  /\ outer' = [outer EXCEPT ![c] = status]
  /\ result' = [result EXCEPT ![c] = res]
  /\ timerArmed' = [timerArmed EXCEPT ![c] = FALSE]

\* Variant: the timer is left armed when the caller's promise settles.
Settle_KeepTimer(c, status, res) ==
  IF outer[c] = "pending"
    THEN /\ outer' = [outer EXCEPT ![c] = status]
         /\ result' = [result EXCEPT ![c] = res]
         /\ UNCHANGED timerArmed
    ELSE UNCHANGED <<outer, result, timerArmed>>

\* The caller's promise settles, once: a promise that is already settled (the
\* timeout's Promise.race has rejected) ignores what the pipeline produces later.
\* Settling ends TimeoutPolicy.execute, whose finally block clears the timer.
Settle(c, status, res) ==
  IF outer[c] = "pending"
    THEN /\ outer' = [outer EXCEPT ![c] = status]
         /\ result' = [result EXCEPT ![c] = res]
         /\ timerArmed' = [timerArmed EXCEPT ![c] = FALSE]
    ELSE UNCHANGED <<outer, result, timerArmed>>

\* BulkheadPolicy.execute's finally block (this.active--; this.dequeue()) for a
\* pipeline of call c that has ended, and the new position of every pipeline:
\* dequeue() shifts the oldest waiter off the queue and schedules a microtask
\* that runs this.execute for it again.
Release(c) ==
  IF holds[c]
    THEN /\ active' = active - 1
         /\ holds' = [holds EXCEPT ![c] = FALSE]
         /\ IF queue # <<>>
              THEN /\ queue' = Tail(queue)
                   /\ inner' = [inner EXCEPT ![c] = "finished", ![Head(queue)] = "dequeued"]
              ELSE /\ queue' = queue
                   /\ inner' = [inner EXCEPT ![c] = "finished"]
    ELSE /\ UNCHANGED <<active, holds, queue>>
         /\ inner' = [inner EXCEPT ![c] = "finished"]

\* Variant: the counter is incremented twice for one invocation.
StartAttempt_CountsTwice(c) ==
  /\ attemptCount' = [attemptCount EXCEPT ![c] = attemptCount[c] + 2]
  /\ inner' = [inner EXCEPT ![c] = "running"]

\* The retry policy (or, without one, the bare call) starts an invocation of the
\* operation through executeWithTracking: attemptCount++; fn(...args)
StartAttempt(c) ==
  /\ attemptCount' = [attemptCount EXCEPT ![c] = attemptCount[c] + 1]
  /\ inner' = [inner EXCEPT ![c] = "running"]

RemoveCall(seq, c) == SelectSeq(seq, LAMBDA x : x # c)

\* BulkheadPolicy.execute for call c, entered on arrival or from the dequeue
\* microtask; without a bulkhead the call goes straight to the retry layer.
\* On both entries the signal is not aborted, so the caller's promise is pending
\* and the timer, if there is one, is armed; a rejection leaves the pipeline at
\* once, fails the call and ends TimeoutPolicy.execute (clearTimeout).
BulkheadExecute(c) ==
  IF ~options.bulkhead.on
    THEN /\ StartAttempt(c)
         /\ outer' = [outer EXCEPT ![c] = "pending"]
         /\ timerArmed' = [timerArmed EXCEPT ![c] = options.timeout.on]
         /\ UNCHANGED <<active, holds, queue, wasQueued, waiters, result, events>>
  ELSE IF BulkheadAdmits(active, options.bulkhead.maxConcurrent)
    THEN /\ active' = active + 1
         /\ holds' = [holds EXCEPT ![c] = TRUE]
         /\ StartAttempt(c)
         /\ waiters' = RemoveCall(waiters, c)
         /\ outer' = [outer EXCEPT ![c] = "pending"]
         /\ timerArmed' = [timerArmed EXCEPT ![c] = options.timeout.on]
         /\ UNCHANGED <<queue, wasQueued, result, events>>
  ELSE IF BulkheadQueues(Len(queue), options.bulkhead.maxQueue)
    THEN /\ queue' = Append(queue, c)
         /\ wasQueued' = [wasQueued EXCEPT ![c] = TRUE]
         /\ waiters' = IF wasQueued[c] THEN waiters ELSE Append(waiters, c)
         /\ inner' = [inner EXCEPT ![c] = "queued"]
         /\ outer' = [outer EXCEPT ![c] = "pending"]
         /\ timerArmed' = [timerArmed EXCEPT ![c] = options.timeout.on]
         /\ UNCHANGED <<active, holds, attemptCount, result, events>>
  ELSE \* this.onRejectEmitter.emit(); throw new BulkheadRejectedError(...)
       /\ inner' = [inner EXCEPT ![c] = "finished"]
       /\ waiters' = RemoveCall(waiters, c)
       /\ outer' = [outer EXCEPT ![c] = FailedCall(CockatielBulkheadRejectedError).status]
       /\ result' = [result EXCEPT ![c] = FailedCall(CockatielBulkheadRejectedError).result]
       /\ timerArmed' = [timerArmed EXCEPT ![c] = FALSE]
       /\ events' = [events EXCEPT ![c] =
                       Reported([events[c] EXCEPT !.onBulkheadRejected = @ + Emitted(1),
                                                  !.order = @ \o Seen(<<"BulkheadRejected">>),
                                                  !.logged = @ + Logged(1)], c,
                                CockatielBulkheadRejectedError,
                                FailedCall(CockatielBulkheadRejectedError))]
       /\ UNCHANGED <<active, holds, queue, wasQueued, attemptCount>>

\* Variant: the attempt number of the Retry event counts from zero.
RetryEvent_ZeroIndexed(c) ==
  [attempt |-> retries[c], maxAttempts |-> options.retry.attempts]

\* The event retryPolicy.onRetry hands to metrics.onRetry: attempt is
\* data.attempt, which the retry loop sets to retries + 1, and maxAttempts is
\* the configured attempts.
RetryEvent(c) ==
  [attempt |-> retries[c] + 1, maxAttempts |-> options.retry.attempts]

\* Variant: a handle wrapped without retry options gets the default policy.
RetryPolicyRetries_Defaulted(c, name) ==
  /\ shouldRetry(name)
  /\ RetryAgain(aborted[c], retries[c],
                IF options.retry.on THEN options.retry.attempts
                ELSE RETRY_DEFAULTS_attempts)

\* The failure of an attempt of call c reaches the retry policy, if the handle
\* has one (`if (retry)`, resilience.ts:70): the policy handles the error and
\* has a retry left.  Without the policy the operation is what
\* composedPolicy.execute, or the policy above, runs.
RetryPolicyRetries(c, name) ==
  /\ options.retry.on
  /\ shouldRetry(name)
  /\ RetryAgain(aborted[c], retries[c], options.retry.attempts)

\* ------------------------------------------------------------------ actions
\* A caller invokes the wrapped function (resilience.ts:89-108); the lowest free
\* identifier names the call.  Everything down to the first invocation of the
\* operation runs synchronously: the timeout policy arms its timer, the bulkhead
\* admits, queues or rejects, and an admitted call starts its first attempt.
Invoke(c) ==
  /\ outer[c] = "idle"
  /\ \A d \in Calls : d < c => outer[d] # "idle"
  /\ BulkheadExecute(c)
  /\ UNCHANGED <<options, classified, backoff, handles, retries, aborted, lastOutcome>>

\* The operation's promise resolves.  The retry policy returns the value, the
\* bulkhead releases the slot and the caller receives the value unless the
\* timeout has already rejected the caller's promise.
OpSucceed(c) ==
  /\ inner[c] = "running"
  /\ lastOutcome' = [lastOutcome EXCEPT ![c] = "ok"]
  /\ Release(c)
  /\ Settle(c, SucceededCall(Value(attemptCount[c])).status,
               SucceededCall(Value(attemptCount[c])).result)
  /\ events' = [events EXCEPT ![c] =
                  IF outer[c] = "pending"
                    THEN Reported([events[c] EXCEPT !.logged = @ + RetryPolicyLogs], c,
                                  Value(attemptCount[c]),
                                  SucceededCall(Value(attemptCount[c])))
                    ELSE [events[c] EXCEPT !.logged = @ + RetryPolicyLogs]]
  /\ UNCHANGED <<options, classified, backoff, handles, retries, attemptCount, aborted, wasQueued, waiters>>

\* The operation's promise rejects with the error called name.  With a retry
\* policy that handles the error and has retries left, the policy starts the
\* backoff sleep; otherwise the error leaves the pipeline as it is.
OpFail(c, name) ==
  /\ inner[c] = "running"
  /\ lastOutcome' = [lastOutcome EXCEPT ![c] = name]
  /\ IF RetryPolicyRetries(c, name)
       THEN /\ inner' = [inner EXCEPT ![c] = "sleeping"]
            /\ events' = [events EXCEPT ![c].onRetry = @ + Emitted(1),
                                        ![c].order = @ \o Seen(<<"Retry">>),
                                        ![c].lastRetry =
                                          IF options.metrics THEN RetryEvent(c) ELSE @,
                                        ![c].logged = @ + RetryPolicyLogs + Logged(1)]
            /\ UNCHANGED <<active, holds, queue, outer, result, timerArmed>>
       ELSE /\ Release(c)
            /\ Settle(c, FailedCall(OpError(name, attemptCount[c])).status,
                         FailedCall(OpError(name, attemptCount[c])).result)
            /\ events' = [events EXCEPT ![c] =
                            IF outer[c] = "pending"
                              THEN Reported([events[c] EXCEPT !.logged = @ + RetryPolicyLogs],
                                            c, OpError(name, attemptCount[c]),
                                            FailedCall(OpError(name, attemptCount[c])))
                              ELSE [events[c] EXCEPT !.logged = @ + RetryPolicyLogs]]
  /\ UNCHANGED <<options, classified, backoff, handles, retries, attemptCount, aborted, wasQueued, waiters>>

\* Variant: the retry policy wraps the bulkhead, so that every attempt takes a
\* slot of its own.
WakeUp_AcquiresAgain(c) ==
  /\ inner[c] = "sleeping"
  /\ retries' = [retries EXCEPT ![c] = retries[c] + 1]
  /\ StartAttempt(c)
  /\ active' = IF options.bulkhead.on THEN active + 1 ELSE active
  /\ UNCHANGED <<options, classified, backoff, handles, queue, outer, result, aborted, timerArmed, holds,
                 lastOutcome, wasQueued, waiters, events>>

\* The backoff sleep ends: the retry loop continues with the next attempt.
WakeUp(c) ==
  /\ inner[c] = "sleeping"
  /\ retries' = [retries EXCEPT ![c] = retries[c] + 1]
  /\ StartAttempt(c)
  /\ UNCHANGED <<options, classified, backoff, handles, active, queue, outer, result, aborted, timerArmed, holds,
                 lastOutcome, wasQueued, waiters, events>>

\* Variant: TimeoutStrategy.Cooperative, where the timer only aborts the signal
\* and the caller keeps waiting for the pipeline.
TimerFire_Cooperative(c) ==
  /\ timerArmed[c]
  /\ aborted' = [aborted EXCEPT ![c] = TRUE]
  /\ timerArmed' = [timerArmed EXCEPT ![c] = FALSE]
  /\ events' = [events EXCEPT ![c].onTimeout = @ + Emitted(1),
                              ![c].order = @ \o Seen(<<"Timeout">>),
                              ![c].logged = @ + Logged(1)]
  /\ UNCHANGED <<options, classified, backoff, handles, active, queue, inner, retries, attemptCount, holds,
                 lastOutcome, wasQueued, waiters, outer, result>>

\* Variant: the Timeout event is emitted after the outcome event of the call.
TimerFire_EventLast(c) ==
  /\ timerArmed[c]
  /\ aborted' = [aborted EXCEPT ![c] = TRUE]
  /\ Settle(c, FailedCall(CockatielTimeoutError).status, FailedCall(CockatielTimeoutError).result)
  /\ events' = [events EXCEPT ![c] =
                  [Reported(events[c], c, CockatielTimeoutError,
                            FailedCall(CockatielTimeoutError))
                     EXCEPT !.onTimeout = @ + Emitted(1),
                            !.order = @ \o Seen(<<"Timeout">>),
                            !.logged = @ + Logged(1)]]
  /\ UNCHANGED <<options, classified, backoff, handles, active, queue, inner, retries,
                 attemptCount, holds, lastOutcome, wasQueued, waiters>>

\* Variant: the timeout gives the slot of the call back at once.
TimerFire_ReleasesSlot(c) ==
  /\ timerArmed[c]
  /\ aborted' = [aborted EXCEPT ![c] = TRUE]
  /\ Settle(c, FailedCall(CockatielTimeoutError).status, FailedCall(CockatielTimeoutError).result)
  /\ events' = [events EXCEPT ![c] =
                  Reported([events[c] EXCEPT !.onTimeout = @ + Emitted(1),
                                             !.order = @ \o Seen(<<"Timeout">>),
                                             !.logged = @ + Logged(1)],
                           c, CockatielTimeoutError,
                           FailedCall(CockatielTimeoutError))]
  /\ active' = IF holds[c] THEN active - 1 ELSE active
  /\ holds' = [holds EXCEPT ![c] = FALSE]
  /\ UNCHANGED <<options, classified, backoff, handles, queue, inner, retries, attemptCount,
                 lastOutcome, wasQueued, waiters>>

\* The timeout timer fires: the signal is aborted and the aggressive strategy
\* rejects the caller's promise at once; the pipeline is left running.
TimerFire(c) ==
  /\ timerArmed[c]
  /\ aborted' = [aborted EXCEPT ![c] = TRUE]
  /\ Settle(c, FailedCall(CockatielTimeoutError).status, FailedCall(CockatielTimeoutError).result)
  /\ events' = [events EXCEPT ![c] =
                  Reported([events[c] EXCEPT !.onTimeout = @ + Emitted(1),
                                             !.order = @ \o Seen(<<"Timeout">>),
                                             !.logged = @ + Logged(1)],
                           c, CockatielTimeoutError,
                           FailedCall(CockatielTimeoutError))]
  /\ UNCHANGED <<options, classified, backoff, handles, active, queue, inner, retries, attemptCount, holds,
                 lastOutcome, wasQueued, waiters>>

\* Variant: the re-execution of a waiter does not look at the abort signal.
DequeueExecute_IgnoresAbort(c) ==
  /\ inner[c] = "dequeued"
  /\ IF ~aborted[c] THEN BulkheadExecute(c)
     ELSE IF BulkheadAdmits(active, options.bulkhead.maxConcurrent)
       THEN /\ active' = active + 1
            /\ holds' = [holds EXCEPT ![c] = TRUE]
            /\ StartAttempt(c)
            /\ waiters' = RemoveCall(waiters, c)
            /\ UNCHANGED <<queue, wasQueued, outer, result, timerArmed, events>>
       ELSE /\ inner' = [inner EXCEPT ![c] = "finished"]
            /\ waiters' = RemoveCall(waiters, c)
            /\ UNCHANGED <<active, holds, queue, wasQueued, attemptCount, outer, result,
                           timerArmed, events>>
  /\ UNCHANGED <<options, classified, backoff, handles, retries, aborted, lastOutcome>>

\* The microtask scheduled by dequeue() runs this.execute(item.fn, item.signal)
\* for the waiter taken off the queue: an aborted signal throws at once, and
\* otherwise the waiter goes through the admission checks again.
DequeueExecute(c) ==
  /\ inner[c] = "dequeued"
  /\ IF aborted[c]
       THEN /\ inner' = [inner EXCEPT ![c] = "finished"]
            /\ waiters' = RemoveCall(waiters, c)
            /\ UNCHANGED <<active, holds, queue, wasQueued, attemptCount, outer, result,
                           timerArmed, events>>
       ELSE BulkheadExecute(c)
  /\ UNCHANGED <<options, classified, backoff, handles, retries, aborted, lastOutcome>>

\* A call that has ended is forgotten; its identifier stands for a new call of
\* the wrapped function, with locals of its own (resilience.ts:89-96).
Forget(c) ==
  /\ outer[c] \in {"resolved", "rejected"}
  /\ inner[c] = "finished"
  /\ outer' = [outer EXCEPT ![c] = "idle"]
  /\ result' = [result EXCEPT ![c] = NoResult]
  /\ inner' = [inner EXCEPT ![c] = "none"]
  /\ retries' = [retries EXCEPT ![c] = 0]
  /\ attemptCount' = [attemptCount EXCEPT ![c] = 0]
  /\ aborted' = [aborted EXCEPT ![c] = FALSE]
  /\ lastOutcome' = [lastOutcome EXCEPT ![c] = "none"]
  /\ wasQueued' = [wasQueued EXCEPT ![c] = FALSE]
  /\ events' = [events EXCEPT ![c] = NoEvents]
  /\ UNCHANGED <<options, classified, backoff, handles, active, queue, timerArmed, holds, waiters>>

Next ==
  \/ \E c \in Calls : Invoke(c)
  \/ \E c \in Calls : OpSucceed(c)
  \/ \E c \in Calls, name \in OpErrorNames : OpFail(c, name)
  \/ \E c \in Calls : WakeUp(c)
  \/ \E c \in Calls : TimerFire(c)
  \/ \E c \in Calls : DequeueExecute(c)
  \/ \E c \in Calls : Forget(c)

Spec == Init /\ [][Next]_vars

\* The event loop runs every timer callback and every microtask that is due: an
\* armed timeout timer fires, a backoff sleep ends and the dequeue microtask
\* runs.  Nothing is assumed about the operation, which may never settle, nor
\* about the callers.
Fairness ==
  \A c \in Calls :
    /\ WF_vars(TimerFire(c))
    /\ WF_vars(WakeUp(c))
    /\ WF_vars(DequeueExecute(c))

\* The handles wrapped with a timeout, under the event loop's guarantees.
InitWithTimeout == Init /\ options.timeout.on

\* The callers of the handle when at most NumCalls - 1 calls are in progress at
\* a time; later calls reuse the identifiers of calls that have ended.
Callers == Calls \ {NumCalls}

NextOfCallers ==
  \/ \E c \in Callers : Invoke(c)
  \/ \E c \in Callers : OpSucceed(c)
  \/ \E c \in Callers, name \in OpErrorNames : OpFail(c, name)
  \/ \E c \in Callers : WakeUp(c)
  \/ \E c \in Callers : TimerFire(c)
  \/ \E c \in Callers : DequeueExecute(c)
  \/ \E c \in Callers : Forget(c)

FairSpec == InitWithTimeout /\ [][NextOfCallers]_vars /\ Fairness

\* The handles wrapped with a fallback.
InitWithFallback == options \in OptionsWithFallback /\ NoCalls /\ OnlyCalls

FallbackSpec == InitWithFallback /\ [][Next]_vars

\* The handles wrapped with a retry policy of up to MaxRetries attempts.
InitWithRetry == options \in OptionsWithRetry /\ NoCalls /\ OnlyCalls

RetrySpec == InitWithRetry /\ [][Next]_vars

\* The handles wrapped with a shouldRetry predicate of the caller.
InitWithFilter == options \in OptionsWithFilter /\ NoCalls /\ OnlyCalls

FilterSpec == InitWithFilter /\ [][NextOfCallers]_vars

\* The handles wrapped with and without the two sinks, metrics and logger.
InitWithSinks == options \in OptionsWithSinks /\ NoCalls /\ OnlyCalls

SinkSpec == InitWithSinks /\ [][NextOfCallers]_vars

\* A handle without any policy, on which no call is made.
NoPolicies ==
  [retry |-> [on |-> FALSE, attempts |-> 0, shouldRetry |-> DefaultFilter],
   bulkhead |-> [on |-> FALSE, maxConcurrent |-> 0, maxQueue |-> 0],
   timeout |-> [on |-> FALSE, ms |-> 0],
   fallback |-> "none", metrics |-> TRUE, logger |-> FALSE]

CallState ==
  <<options, active, queue, outer, result, inner, retries, attemptCount, aborted,
    timerArmed, holds, lastOutcome, wasQueued, waiters, events>>

\* ----------------------------------------------- the classifier on its own
\* isRetryableError(error) for an error value drawn from ErrorValues.
InitClassifier ==
  /\ options = NoPolicies
  /\ NoCalls
  /\ backoff = NoBackoff
  /\ handles = NoHandles
  /\ classified \in {[error |-> e, verdict |-> "none"] : e \in ErrorValues}

Classify ==
  /\ classified.verdict = "none"
  /\ classified' = [classified EXCEPT !.verdict =
                       IF isRetryableError(classified.error) THEN "retryable"
                       ELSE "non-retryable"]
  /\ UNCHANGED <<CallState, backoff, handles>>

ClassifierSpec == InitClassifier /\ [][Classify]_vars

\* -------------------------------------------------- the backoff on its own
\* The retry options the backoff is built from (policies.ts:60-69).
BackoffConfigs ==
  [delay : {0, 50, 200}, maxDelay : {0, 100, 10000},
   backoff : {"exponential", "fixed"}, jitter : BOOLEAN]

RECURSIVE Pow(_, _)
Pow(base, n) == IF n = 0 THEN 1 ELSE base * Pow(base, n - 1)

Min(a, b) == IF a <= b THEN a ELSE b

\* Variant: the exponent counts the delay being generated as well.
noJitterGenerator_FromOne(config, generated) ==
  Min(config.maxDelay, config.delay * Pow(2, generated + 1))

\* cockatiel noJitterGenerator: the delay after `generated` earlier delays,
\* Math.min(maxDelay, initialDelay * 2 ** generated)
noJitterGenerator(config, generated) ==
  Min(config.maxDelay, config.delay * Pow(2, generated))

\* cockatiel decorrelatedJitterGenerator:
\* Math.min(random factor * initialDelay, maxDelay), the factor not negative
decorrelatedJitterGenerator(config, factor) ==
  Min(factor * config.delay, config.maxDelay)

\* cockatiel ConstantBackoff(delay): every duration is the delay
ConstantBackoff(config) == config.delay

\* The delays backoff.next() can produce after `generated` earlier ones, for the
\* generator createRetryPolicy configures.  With jitter the generator option is
\* passed as undefined: the library then either uses its default, the
\* decorrelated jitter, or has no generator to call, in which case next()
\* throws and no delay is produced; both are allowed here.
NextDelays(config, generated) ==
  IF config.backoff = "fixed" THEN {ConstantBackoff(config)}
  ELSE IF ~config.jitter THEN {noJitterGenerator(config, generated)}
  ELSE {decorrelatedJitterGenerator(config, f) : f \in 0..MaxJitterFactor}

InitBackoff ==
  /\ options = NoPolicies
  /\ NoCalls
  /\ classified = NoVerdict
  /\ handles = NoHandles
  /\ backoff \in {[kind |-> "ready", config |-> cfg, generated |-> 0, delay |-> 0] :
                    cfg \in BackoffConfigs}

\* A retry of the loop: backoff.next(context), whose duration is the delay of
\* the Retry event (policies.ts:82-90, data.delay).
BackoffNext ==
  /\ backoff.kind \in {"ready", "reported"}
  /\ backoff.generated < MaxBackoffSteps
  /\ \E d \in NextDelays(backoff.config, backoff.generated) :
       backoff' = [backoff EXCEPT !.kind = "reported", !.generated = @ + 1, !.delay = d]
  /\ UNCHANGED <<CallState, classified, handles>>

\* With jitter configured, next() may fail instead: the retry loop ends.
BackoffFails ==
  /\ backoff.kind \in {"ready", "reported"}
  /\ backoff.config.backoff = "exponential" /\ backoff.config.jitter
  /\ backoff' = [backoff EXCEPT !.kind = "failed"]
  /\ UNCHANGED <<CallState, classified, handles>>

NextBackoff == BackoffNext \/ BackoffFails

BackoffSpec == InitBackoff /\ [][NextBackoff]_vars

\* ------------------------------------------------- handles side by side
\* Handles made by separate calls of withResilience, each with bulkhead options.
Handles == 1..NumHandles

HandleConfigs == {b \in BulkheadChoices : b.on}

\* Variant: one bulkhead policy, created once, serves every handle.
BulkheadOf_Shared(h) == 1

\* The bulkhead policy of handle h: withResilience calls createBulkheadPolicy,
\* and so bulkhead(maxConcurrent, maxQueue), anew each time it wraps.
BulkheadOf(h) == h

InitHandles ==
  /\ options = NoPolicies
  /\ NoCalls
  /\ classified = NoVerdict
  /\ backoff = NoBackoff
  /\ \E cfg \in [Handles -> HandleConfigs] :
       handles = [config |-> cfg,
                  policy |-> [h \in Handles |-> [active |-> 0, queue |-> <<>>]],
                  call |-> [h \in Handles |-> [k \in Calls |-> "idle"]]]

\* BulkheadPolicy.execute on the policy of handle h, for call k of that handle.
HandleExecute(h, k) ==
  LET p == BulkheadOf(h)
      policy == handles.policy[p]
      config == handles.config[p]
  IN IF BulkheadAdmits(policy.active, config.maxConcurrent)
       THEN handles' = [handles EXCEPT !.policy[p].active = @ + 1,
                                       !.call[h][k] = "running"]
     ELSE IF BulkheadQueues(Len(policy.queue), config.maxQueue)
       THEN handles' = [handles EXCEPT !.policy[p].queue = Append(@, <<h, k>>),
                                       !.call[h][k] = "queued"]
     ELSE handles' = [handles EXCEPT !.call[h][k] = "rejected"]

\* The wrapped function of handle h is called.
HandleInvoke(h, k) ==
  /\ handles.call[h][k] = "idle"
  /\ \A j \in Calls : j < k => handles.call[h][j] # "idle"
  /\ HandleExecute(h, k)
  /\ UNCHANGED <<CallState, classified, backoff>>

\* The pipeline of call k of handle h ends: this.active--; this.dequeue()
HandleFinish(h, k) ==
  /\ handles.call[h][k] = "running"
  /\ LET p == BulkheadOf(h)
         policy == handles.policy[p]
     IN IF policy.queue # <<>>
          THEN handles' = [handles EXCEPT
                             !.policy[p] = [active |-> policy.active - 1,
                                            queue |-> Tail(policy.queue)],
                             !.call = [g \in Handles |-> [j \in Calls |->
                                         IF <<g, j>> = <<h, k>> THEN "done"
                                         ELSE IF <<g, j>> = Head(policy.queue) THEN "dequeued"
                                         ELSE handles.call[g][j]]]]
          ELSE handles' = [handles EXCEPT !.policy[p].active = @ - 1,
                                          !.call[h][k] = "done"]
  /\ UNCHANGED <<CallState, classified, backoff>>

\* The microtask of dequeue() runs execute again for the waiter.
HandleDequeue(h, k) ==
  /\ handles.call[h][k] = "dequeued"
  /\ HandleExecute(h, k)
  /\ UNCHANGED <<CallState, classified, backoff>>

NextOfHandles ==
  \/ \E h \in Handles, k \in Calls : HandleInvoke(h, k)
  \/ \E h \in Handles, k \in Calls : HandleFinish(h, k)
  \/ \E h \in Handles, k \in Calls : HandleDequeue(h, k)

HandleSpec == InitHandles /\ [][NextOfHandles]_vars


\* ------------------------------------------------------------ shorthands
Settled(c) == outer[c] \in {"resolved", "rejected"}
RetryableNames == {name \in OpErrorNames : shouldRetry(name)}
InFlight == {c \in Calls : holds[c]}

\* The retry loop of call c has ended because every invocation of the operation
\* failed with a retryable error (a success or a non-retryable error ends the
\* loop, so the latest outcome tells), and no timeout cut the loop short.
ExhaustedByRetryableFailures(c) ==
  /\ options.retry.on
  /\ inner[c] = "finished"
  /\ lastOutcome[c] \in RetryableNames
  /\ ~aborted[c]

CanonicalKinds ==
  {"RetryExhaustedError", "TimeoutError", "BulkheadRejectedError", "ResilienceError"}

\* ------------------------------------------------------------------ claims

\* C1: with maxAttempts = N and an operation that fails with a retryable error
\* on every invocation, a call invokes the operation exactly N times, and no
\* attempt is started after the N-th one.
C1_RetryBound ==
  \A c \in Calls :
    options.retry.on =>
      /\ attemptCount[c] <= options.retry.attempts
      /\ ExhaustedByRetryableFailures(c) => attemptCount[c] = options.retry.attempts

\* C2: when every allowed attempt fails with a retryable error and no fallback
\* is configured, the call fails with RetryExhausted{attempts: N, lastError: the
\* error of the last invocation}, not with the raw error of the operation.
C2_RetryExhausted ==
  \A c \in Calls :
    (ExhaustedByRetryableFailures(c) /\ options.fallback = "none" /\ Settled(c)) =>
      /\ outer[c] = "rejected"
      /\ result[c] = RetryExhaustedError(options.retry.attempts,
                                         OpError(lastOutcome[c], attemptCount[c]))

\* C3: every failure raised to the caller is one of the four canonical kinds;
\* a raw error thrown by the operation is never raised unchanged.
C3_CanonicalErrors ==
  \A c \in Calls : outer[c] = "rejected" => result[c].kind \in CanonicalKinds

\* C4: with a bulkhead, the number of executions admitted and not yet released
\* never exceeds maxConcurrent.
C4_ConcurrencyBound ==
  options.bulkhead.on =>
    /\ Cardinality(InFlight) <= options.bulkhead.maxConcurrent
    /\ active <= options.bulkhead.maxConcurrent

\* C4 witness: every slot is taken while another caller waits in the queue.
C4_Witness ==
  /\ options.bulkhead.on
  /\ Cardinality(InFlight) = options.bulkhead.maxConcurrent
  /\ queue # <<>>

BulkheadFull ==
  /\ options.bulkhead.on
  /\ active = options.bulkhead.maxConcurrent
  /\ Len(queue) = options.bulkhead.maxQueue

\* C6: a call that arrives while every slot is taken and the queue holds
\* maxQueueDepth waiters is rejected in the step in which it arrives: the queue
\* is left as it was, the operation is not invoked for the call, and without a
\* fallback the call fails with
\* BulkheadRejected{queueSize: maxQueueDepth, maxQueue: maxQueueDepth}.
C6_RejectWhenFull ==
  [][\A c \in Calls :
       (outer[c] = "idle" /\ outer'[c] # "idle" /\ BulkheadFull) =>
         /\ queue' = queue
         /\ active' = active
         /\ ~wasQueued'[c]
         /\ attemptCount'[c] = 0
         /\ inner'[c] = "finished"
         /\ outer'[c] # "pending"
         /\ options.fallback = "none" =>
              /\ outer'[c] = "rejected"
              /\ result'[c] = BulkheadRejectedError(options.bulkhead.maxQueue,
                                                    options.bulkhead.maxQueue)]_vars

\* C6 witness: a call was rejected on arrival, with the bulkhead still full and
\* a waiter in the queue; the operation was never invoked for the call.
C6_Witness ==
  \E c \in Calls :
    /\ BulkheadFull
    /\ options.bulkhead.maxQueue >= 1
    /\ outer[c] = "rejected"
    /\ result[c].kind = "BulkheadRejectedError"
    /\ ~wasQueued[c]
    /\ attemptCount[c] = 0

\* The waiters that are ahead of call d for the next slot: those queued before d
\* if d has been queued, every waiter if d has just arrived.  A waiter whose
\* timeout has fired no longer asks for a slot.
AheadOf(d) ==
  LET pos(x) == CHOOSE i \in 1..Len(waiters) : waiters[i] = x IN
  {waiters[i] : i \in {j \in 1..Len(waiters) :
                         /\ waiters[j] # d
                         /\ ~aborted[waiters[j]]
                         /\ (\E k \in 1..Len(waiters) : waiters[k] = d) => j < pos(d)}}

\* C7: admission is strictly FIFO: whenever a call takes a slot, no call that
\* was enqueued before it, and for a call that has just arrived no call at all,
\* is still waiting for a slot.
C7_StrictFIFO ==
  [][\A d \in Calls : (holds'[d] /\ ~holds[d]) => AheadOf(d) = {}]_vars

\* C8: with a bulkhead and no timeout, a call that was queued is admitted: its
\* pipeline never ends without the operation having been invoked for it.
C8_QueuedIsAdmitted ==
  \A c \in Calls :
    (options.bulkhead.on /\ ~options.timeout.on /\ wasQueued[c] /\ inner[c] = "finished")
      => attemptCount[c] >= 1

\* C9: once the timeout of a call has elapsed the caller never receives the
\* value of the operation, whenever the operation produces it; without a
\* fallback the call has failed with Timeout whose duration is the configured T.
C9_TimeoutError ==
  \A c \in Calls :
    aborted[c] =>
      /\ outer[c] # "pending"
      /\ result[c].kind # "Value"
      /\ options.fallback = "none" =>
           /\ outer[c] = "rejected"
           /\ result[c] = TimeoutError(options.timeout.ms)

\* C9 witness: the operation succeeded after the timeout had fired, and the
\* caller holds Timeout{duration: T}.
C9_Witness ==
  \E c \in Calls :
    /\ aborted[c]
    /\ lastOutcome[c] = "ok"
    /\ inner[c] = "finished"
    /\ outer[c] = "rejected"
    /\ result[c] = TimeoutError(options.timeout.ms)

\* C10: the deadline runs from the invocation of the wrapped function for as
\* long as the call is pending, whether the call is queued, executing, sleeping
\* between attempts or being re-executed by the bulkhead; when the timer fires
\* the call ends at once, without a fallback with Timeout; and so every call
\* with a timeout is eventually resolved, even if the operation never settles.
C10_DeadlineCoversEverything ==
  /\ [](\A c \in Calls : (options.timeout.on /\ outer[c] = "pending") => timerArmed[c])
  /\ [][\A c \in Calls :
          (timerArmed[c] /\ aborted'[c]) =>
            /\ outer'[c] # "pending"
            /\ options.fallback = "none" =>
                 /\ outer'[c] = "rejected"
                 /\ result'[c] = TimeoutError(options.timeout.ms)]_vars
  /\ \A c \in Calls :
       (options.timeout.on /\ outer[c] = "pending") ~> (outer[c] # "pending")

\* C10 witness: two calls have timed out, one while it sat in the queue and one
\* while it slept between two attempts; neither pipeline has ended.
C10_Witness ==
  \E c, d \in Calls :
    /\ aborted[c] /\ inner[c] = "queued" /\ outer[c] = "rejected"
    /\ aborted[d] /\ inner[d] = "sleeping" /\ outer[d] = "rejected"
    /\ result[c] = TimeoutError(options.timeout.ms)
    /\ result[d] = TimeoutError(options.timeout.ms)

\* The composed pipeline of call c rejected, as executeWithFallback saw it.
PipelineFailed(c) == events[c].pipeline.kind \notin {"none", "Value"}

\* The errors the classifier in effect, isRetryableError, rejects.
NonRetryableNames == {name \in OpErrorNames : ~isRetryableError(ErrorNamed(name))}

\* C11: with a fallback value V, a call whose pipeline ends in a failure of any
\* kind resolves to V; no call of the handle is ever rejected.
C11_FallbackValue ==
  options.fallback = "value" =>
    \A c \in Calls :
      /\ outer[c] # "rejected"
      /\ PipelineFailed(c) => (outer[c] = "resolved" /\ result[c] = FallbackValue)

\* C11 witness: one call timed out, one was rejected by the bulkhead and one
\* ended with an error of the operation, and each of them resolved to V.
C11_Witness ==
  \E c, d, e \in Calls :
    /\ options.fallback = "value"
    /\ events[c].pipeline = CockatielTimeoutError
    /\ events[d].pipeline = CockatielBulkheadRejectedError
    /\ events[e].pipeline.kind = "OpError"
    /\ \A x \in {c, d, e} : outer[x] = "resolved" /\ result[x] = FallbackValue

\* C12: when the pipeline of a call fails and a fallback is configured, the
\* Failure event is emitted for the call, carrying the canonical error.
C12_FailureEventWithFallback ==
  \A c \in Calls :
    (options.fallback # "none" /\ PipelineFailed(c)) =>
      /\ events[c].metric.kind = "failure"
      /\ events[c].metric.error.kind \in CanonicalKinds

\* C13: an operation that fails k < N times with retryable errors and then
\* succeeds is invoked exactly k + 1 times, and the call resolves to the value
\* of the (k+1)-th invocation.
C13_EarlySuccess ==
  \A c \in Calls :
    (/\ options.retry.on
     /\ inner[c] = "finished"
     /\ lastOutcome[c] = "ok"
     /\ ~aborted[c]
     /\ retries[c] < options.retry.attempts) =>
      /\ attemptCount[c] = retries[c] + 1
      /\ outer[c] = "resolved"
      /\ result[c] = Value(retries[c] + 1)

\* C13 witness: with N = 2 the operation failed once, was retried and succeeded.
C13_Witness ==
  \E c \in Calls :
    /\ options.retry.on /\ options.retry.attempts = 2
    /\ retries[c] = 1
    /\ events[c].onRetry = 1
    /\ lastOutcome[c] = "ok"
    /\ outer[c] = "resolved"
    /\ result[c] = Value(2)

\* C14: when the classifier rejects a failure, the retry loop ends with that
\* attempt and emits no Retry event for it; an operation whose first failure is
\* rejected is invoked exactly once, whatever maxAttempts is.
C14_NonRetryableStops ==
  \A c \in Calls :
    (options.retry.on /\ lastOutcome[c] \in NonRetryableNames) =>
      /\ inner[c] = "finished"
      /\ attemptCount[c] = retries[c] + 1
      /\ events[c].onRetry = retries[c]
      /\ retries[c] = 0 => (attemptCount[c] = 1 /\ events[c].onRetry = 0)

\* C14 witness: with N = 2 the first failure was rejected by the classifier and
\* the call has failed after one invocation.
C14_Witness ==
  \E c \in Calls :
    /\ options.retry.on /\ options.retry.attempts = 2
    /\ lastOutcome[c] \in NonRetryableNames
    /\ attemptCount[c] = 1
    /\ events[c].onRetry = 0
    /\ outer[c] = "rejected"

\* C15: when the retry loop ends because the classifier rejects a failure (no
\* fallback), the call fails with RetryExhausted whose attempts is the number of
\* invocations made and whose lastError is the rejected error.
C15_RetryExhaustedOnRejection ==
  \A c \in Calls :
    (/\ options.retry.on
     /\ options.fallback = "none"
     /\ lastOutcome[c] \in NonRetryableNames
     /\ ~aborted[c]
     /\ Settled(c)) =>
      /\ outer[c] = "rejected"
      /\ result[c] = RetryExhaustedError(attemptCount[c],
                                         OpError(lastOutcome[c], attemptCount[c]))

\* The error the wrapped function throws for a pipeline that rejected with
\* error when no fallback is configured: both transformations, the second with
\* the configured attempts.
RaisedWithoutFallback(error) ==
  transformCockatielError(transformCockatielError(error, ErrorConfig(0)),
    ErrorConfig(IF options.retry.on THEN options.retry.attempts
                ELSE RETRY_DEFAULTS_attempts))

\* C16: with a fallback function, a failed pipeline calls the function exactly
\* once, with the canonical error the call would have raised without a
\* fallback, and the caller receives what the function returns, also when it
\* returns a promise.
C16_FallbackFunction ==
  \A c \in Calls :
    (options.fallback \in {"fn", "asyncFn"} /\ PipelineFailed(c)) =>
      /\ events[c].fallbackCalls = 1
      /\ events[c].fallbackArg = RaisedWithoutFallback(events[c].pipeline)
      /\ events[c].fallbackArg.kind \in CanonicalKinds
      /\ outer[c] = "resolved"
      /\ result[c] = FallbackResult(events[c].fallbackArg)

\* C17: when the fallback function fails, the call fails with that failure and
\* the function has been called once.
C17_FallbackFailure ==
  \A c \in Calls :
    (FallbackThrows(options.fallback) /\ PipelineFailed(c)) =>
      /\ events[c].fallbackCalls = 1
      /\ outer[c] = "rejected"
      /\ result[c] = FallbackError(options.fallback)

\* C18: when the pipeline of a call succeeds, the caller receives the value of
\* the operation unchanged and the fallback is neither called nor substituted.
C18_SuccessUnchanged ==
  \A c \in Calls :
    events[c].pipeline.kind = "Value" =>
      /\ outer[c] = "resolved"
      /\ result[c] = events[c].pipeline
      /\ result[c] = Value(attemptCount[c])
      /\ events[c].fallbackCalls = 0
      /\ events[c].metric.kind = "success"

\* C18 witness: a fallback function is configured and the operation succeeded
\* on a retry.
C18_Witness ==
  \E c \in Calls :
    /\ options.fallback \in FallbackFunctionChoices
    /\ retries[c] >= 1
    /\ outer[c] = "resolved"
    /\ result[c] = Value(2)
    /\ events[c].fallbackCalls = 0

\* C19: when the pipeline of a call with a timeout ends before the timer has
\* fired, the pipeline's own outcome is what the timeout layer hands on (the
\* value reaches the caller), no Timeout event is emitted and the timer is
\* cancelled, so it cannot fire for the call afterwards.
C19_CompletesBeforeDeadline ==
  \A c \in Calls :
    (options.timeout.on /\ inner[c] = "finished" /\ ~aborted[c]) =>
      /\ Settled(c)
      /\ ~timerArmed[c]
      /\ events[c].onTimeout = 0
      /\ events[c].pipeline # CockatielTimeoutError
      /\ lastOutcome[c] = "ok" =>
           /\ events[c].pipeline = Value(attemptCount[c])
           /\ outer[c] = "resolved"
           /\ result[c] = Value(attemptCount[c])
      /\ lastOutcome[c] \in OpErrorNames =>
           events[c].pipeline = OpError(lastOutcome[c], attemptCount[c])

\* C19 witness: under a timeout one call has returned its value and another has
\* failed with the error of the operation, both before the timer fired.
C19_Witness ==
  \E c, d \in Calls :
    /\ options.timeout.on
    /\ ~aborted[c] /\ result[c] = Value(1)
    /\ ~aborted[d] /\ inner[d] = "finished" /\ lastOutcome[d] \in OpErrorNames
    /\ events[c].onTimeout = 0 /\ events[d].onTimeout = 0

\* C20: the attempts of a call's Success or Failure event is the number of
\* invocations of the operation made by that call when the event is emitted,
\* whatever other calls of the handle have done; a call whose first invocation
\* succeeds reports attempts = 1.
C20_AttemptsPerCall ==
  /\ [][\A c \in Calls :
          (events[c].metric.kind = "none" /\ events'[c].metric.kind # "none") =>
            events'[c].metric.attempts = attemptCount'[c]]_vars
  /\ [](\A c \in Calls :
          (events[c].metric.kind # "none" /\ ~aborted[c]) =>
            events[c].metric.attempts = attemptCount[c])
  /\ [](\A c \in Calls :
          events[c].pipeline = Value(1) =>
            events[c].metric = [kind |-> "success", attempts |-> 1])

\* C20 witness: two calls have each reported a success with attempts = 1 while
\* a third call is in its second invocation of the operation.
C20_Witness ==
  \E c, d, e \in Calls :
    /\ c # d
    /\ events[c].metric = [kind |-> "success", attempts |-> 1]
    /\ events[d].metric = [kind |-> "success", attempts |-> 1]
    /\ inner[e] = "running" /\ attemptCount[e] = 2

\* C21: a policy that is not configured is skipped.  Without retry options the
\* operation is invoked once per call, also when it fails with an error the
\* default classifier accepts, and no Retry event is emitted; without bulkhead
\* options no call is queued or rejected and no slot is counted; without a
\* timeout no timer is armed and no call fails with Timeout.
C21_OmittedPolicyIsIdentity ==
  \A c \in Calls :
    /\ ~options.retry.on =>
         /\ attemptCount[c] <= 1
         /\ retries[c] = 0
         /\ inner[c] # "sleeping"
         /\ events[c].onRetry = 0
         /\ lastOutcome[c] \in OpErrorNames => (inner[c] = "finished" /\ attemptCount[c] = 1)
    /\ ~options.bulkhead.on =>
         /\ ~wasQueued[c] /\ queue = <<>> /\ inner[c] \notin {"queued", "dequeued"}
         /\ ~holds[c] /\ active = 0
         /\ events[c].onBulkheadRejected = 0
         /\ events[c].pipeline # CockatielBulkheadRejectedError
         /\ result[c].kind # "BulkheadRejectedError"
         /\ outer[c] # "idle" => attemptCount[c] >= 1
    /\ ~options.timeout.on =>
         /\ ~timerArmed[c] /\ ~aborted[c]
         /\ events[c].onTimeout = 0
         /\ events[c].pipeline # CockatielTimeoutError
         /\ result[c].kind # "TimeoutError"

\* C21 witness: a handle without any policy; one call has failed with HTTP 500
\* after a single invocation while the other calls are all executing.
C21_Witness ==
  \E c \in Calls :
    /\ ~options.retry.on /\ ~options.bulkhead.on /\ ~options.timeout.on
    /\ lastOutcome[c] = "E500" /\ attemptCount[c] = 1 /\ inner[c] = "finished"
    /\ \A d \in Calls \ {c} : inner[d] = "running"

\* C22: the engine does not retry a bulkhead rejection or a timeout.  A call the
\* bulkhead rejected has not invoked the operation and has emitted no Retry
\* event; the step in which the timer of a call fires starts no attempt and
\* schedules no retry, and no Retry event is emitted for the call from then on;
\* a retry is only ever scheduled for a failure of the operation that the
\* classifier accepted, before the timeout.
C22_NoRetryOfRejectionOrTimeout ==
  /\ [](\A c \in Calls :
          events[c].pipeline = CockatielBulkheadRejectedError =>
            /\ attemptCount[c] = 0
            /\ retries[c] = 0
            /\ events[c].onRetry = 0
            /\ inner[c] = "finished")
  /\ [][\A c \in Calls :
          /\ aborted'[c] => events'[c].onRetry = events[c].onRetry
          /\ (~aborted[c] /\ aborted'[c]) =>
               /\ retries'[c] = retries[c]
               /\ attemptCount'[c] = attemptCount[c]
               /\ inner'[c] = inner[c]
          /\ (inner[c] # "sleeping" /\ inner'[c] = "sleeping") =>
               /\ inner[c] = "running"
               /\ lastOutcome'[c] \in RetryableNames
               /\ ~aborted[c]]_vars

\* C22 witness: under a retry policy one call was rejected by the bulkhead and
\* another timed out during its first attempt, which then failed with an error
\* the classifier accepts; neither was retried.
C22_Witness ==
  \E c, d \in Calls :
    /\ options.retry.on
    /\ events[c].pipeline = CockatielBulkheadRejectedError /\ attemptCount[c] = 0
    /\ aborted[d] /\ lastOutcome[d] \in RetryableNames /\ inner[d] = "finished"
    /\ retries[d] = 0 /\ attemptCount[d] = 1 /\ events[d].onRetry = 0

\* The messages that say network or fetch failed, in any case of letters.
NetworkMessages == {"fetch failed", "FETCH FAILED", "Network error"}

\* C23: the default classifier answers non-retryable for an error that carries
\* status 400, 401, 403, 404 or 422; retryable for an Error that carries a status
\* of 500 or more; retryable for an Error (without a non-retryable status) with
\* one of the four network codes or a network or fetch-failed message; and
\* non-retryable for everything else, a thrown value that is not an Error
\* included.
C23_DefaultClassifier ==
  classified.verdict # "none" =>
    LET e == classified.error
        retryable == classified.verdict = "retryable"
        rejected == e.statusAt # "none" /\ e.status \in {400, 401, 403, 404, 422}
        server == e.isError /\ e.statusAt # "none" /\ e.status >= 500
        network == /\ e.isError
                   /\ ~rejected
                   /\ \/ e.code \in {"ECONNRESET", "ETIMEDOUT", "ECONNREFUSED", "ENETUNREACH"}
                      \/ e.message \in NetworkMessages
    IN /\ rejected => ~retryable
       /\ server => retryable
       /\ network => retryable
       /\ ~(server \/ network) => ~retryable

\* C23 witness: an Error with status 429, no code and an unknown message has
\* been classified, and the verdict is non-retryable (fail closed).
C23_Witness ==
  /\ classified.verdict = "non-retryable"
  /\ classified.error.isError
  /\ classified.error.status = 429
  /\ classified.error.code = ""
  /\ classified.error.message = "Unknown error"

\* C25: every delay reported in a Retry event lies within [0, maxDelay], for
\* both kinds of backoff, with and without jitter.
C25_DelayWithinMaxDelay ==
  backoff.kind = "reported" =>
    (0 <= backoff.delay /\ backoff.delay <= backoff.config.maxDelay)

\* C24: with a shouldRetry predicate of the caller, whenever an attempt fails
\* while the call has a retry left and has not timed out, the failure is retried
\* exactly when the predicate accepts the error, whatever the default
\* classifier says about it.
C24_CustomFilterOverrides ==
  [][\A c \in Calls :
       (/\ options.retry.shouldRetry.custom
        /\ inner[c] = "running" /\ inner'[c] # "running"
        /\ lastOutcome'[c] \in OpErrorNames
        /\ ~aborted[c]
        /\ retries[c] < options.retry.attempts) =>
         IF lastOutcome'[c] \in options.retry.shouldRetry.accepts
           THEN inner'[c] = "sleeping" /\ events'[c].onRetry = events[c].onRetry + 1
           ELSE inner'[c] = "finished" /\ events'[c].onRetry = events[c].onRetry]_vars

\* C24 witness: the predicate accepts HTTP 404 and not HTTP 500; one call has
\* ended after a single attempt that failed with 500, another is being retried
\* after a 404.
C24_Witness ==
  \E c, d \in Calls :
    /\ options.retry.shouldRetry.custom
    /\ "E500" \notin options.retry.shouldRetry.accepts
    /\ "E404" \in options.retry.shouldRetry.accepts
    /\ isRetryableError(ErrorNamed("E500")) /\ ~isRetryableError(ErrorNamed("E404"))
    /\ lastOutcome[c] = "E500" /\ inner[c] = "finished" /\ attemptCount[c] = 1
    /\ ~aborted[c]
    /\ lastOutcome[d] = "E404" /\ inner[d] = "sleeping" /\ events[d].onRetry = 1

C27_NestingOrder ==
  /\ [](\A c \in Calls :
          /\ options.bulkhead.on => (holds[c] <=> inner[c] \in {"running", "sleeping"})
          /\ holds[c] => attemptCount[c] >= 1 /\ attemptCount[c] = retries[c] + 1
          /\ (options.timeout.on /\ outer[c] = "pending") => timerArmed[c])
  /\ [][\A c \in Calls :
          /\ (~holds[c] /\ holds'[c]) =>
               /\ attemptCount[c] = 0 /\ attemptCount'[c] = 1
               /\ active' = active + 1
          /\ (holds[c] /\ attemptCount'[c] # attemptCount[c]) =>
               /\ holds'[c] /\ active' = active
               /\ attemptCount'[c] = attemptCount[c] + 1
          /\ (holds[c] /\ inner'[c] = "sleeping") =>
               /\ holds'[c]
               /\ inner[c] # "sleeping" => active' = active
          /\ (holds[c] /\ ~holds'[c]) =>
               /\ inner[c] = "running" /\ inner'[c] = "finished"
               /\ lastOutcome'[c] # "none"
               /\ active' = active - 1]_vars

\* C27 witness: under a bulkhead of one slot a call is in its second attempt,
\* still holding the slot it took before the first, while another call waits in
\* the queue.
C27_Witness ==
  \E c, d \in Calls :
    /\ options.bulkhead.on /\ options.bulkhead.maxConcurrent = 1
    /\ holds[c] /\ inner[c] = "running" /\ attemptCount[c] = 2 /\ retries[c] = 1
    /\ active = 1 /\ inner[d] = "queued"

\* C28: a release hands the slot to the oldest waiter.  The counter of slots
\* equals the number of calls that hold one; a release takes at most the head
\* off the queue; no call takes a slot twice; and the waiter taken off the
\* queue, unless its timeout has fired meanwhile, goes on to execute: it is
\* neither rejected nor put back into the queue.
C28_OldestAdmittedDirectly ==
  /\ [](active = Cardinality(InFlight) /\ active >= 0)
  /\ [][/\ Len(queue') < Len(queue) =>
             /\ queue' = Tail(queue)
             /\ inner'[Head(queue)] = "dequeued"
             /\ active' = active - 1
        /\ \A c \in Calls :
             /\ (holds'[c] /\ ~holds[c]) => attemptCount[c] = 0
             /\ (inner[c] = "dequeued" /\ ~aborted[c] /\ inner'[c] # "dequeued") =>
                  (inner'[c] = "running" /\ holds'[c])]_vars

\* C29: a timeout leaves the slot with the abandoned execution.  The step in
\* which the timer of a call that holds a slot fires settles the caller's
\* promise and changes neither the slot nor the counter; from then on the slot
\* is counted while the execution is running or sleeping, any step that leaves
\* the execution where it is leaves the slot with it, and the slot is given back
\* by the one step in which the execution finishes.
C29_SlotOutlivesTimeout ==
  /\ [](\A c \in Calls :
          (aborted[c] /\ holds[c]) =>
            /\ outer[c] # "pending"
            /\ inner[c] \in {"running", "sleeping"}
            /\ active >= 1 /\ c \in InFlight)
  /\ [][\A c \in Calls :
          /\ (holds[c] /\ ~aborted[c] /\ aborted'[c]) =>
               /\ holds'[c] /\ active' = active /\ inner'[c] = inner[c]
               /\ outer[c] = "pending" /\ outer'[c] # "pending"
          /\ (aborted[c] /\ holds[c] /\ inner'[c] # "finished") => holds'[c]
          /\ (aborted[c] /\ holds[c] /\ ~holds'[c]) =>
               /\ inner[c] = "running" /\ inner'[c] = "finished"
               /\ active' = active - 1
          /\ (aborted[c] /\ ~holds[c]) => ~holds'[c]]_vars

\* C29 witness: under a bulkhead of one slot a call has timed out (the caller
\* has its Timeout error) while its attempt is still executing and holding the
\* slot, and a later call waits in the queue behind it.
C29_Witness ==
  \E c, d \in Calls :
    /\ options.bulkhead.on /\ options.bulkhead.maxConcurrent = 1
    /\ aborted[c] /\ holds[c] /\ inner[c] = "running"
    /\ outer[c] = "rejected" /\ result[c].kind = "TimeoutError"
    /\ active = 1 /\ inner[d] = "queued"

C31_NoJitterDelay ==
  (backoff.kind = "reported" /\ ~backoff.config.jitter) =>
    LET n == backoff.generated
        base == backoff.config.delay
        cap == backoff.config.maxDelay
    IN backoff.delay =
         (IF backoff.config.backoff = "exponential"
            THEN (IF base * Pow(2, n - 1) <= cap THEN base * Pow(2, n - 1) ELSE cap)
            ELSE base)

\* C31 witness: exponential backoff without jitter from 50 ms; the retry after
\* the third failed attempt is reported with 200 ms, and with a cap of 100 ms
\* another one is reported with the cap.
C31_Witness ==
  /\ backoff.kind = "reported" /\ ~backoff.config.jitter
  /\ backoff.config.backoff = "exponential" /\ backoff.config.delay = 50
  /\ backoff.generated = 3
  /\ \/ backoff.config.maxDelay = 10000 /\ backoff.delay = 200
     \/ backoff.config.maxDelay = 100 /\ backoff.delay = 100

\* C32: the Retry events of a call are numbered 1, 2, ... and carry the
\* configured attempts as maxAttempts; each is emitted in the step that ends an
\* attempt and starts the backoff sleep, so before the next attempt starts; and
\* a call whose retry loop has ended has emitted one Retry event less than it
\* has invoked the operation (none if it never invoked it).
C32_RetryEvents ==
  /\ [](\A c \in Calls :
          /\ events[c].onRetry >= 1 =>
               /\ events[c].lastRetry.attempt = events[c].onRetry
               /\ events[c].lastRetry.maxAttempts = options.retry.attempts
          /\ inner[c] = "sleeping" => events[c].onRetry = attemptCount[c]
          /\ (inner[c] \in {"running", "finished"} /\ attemptCount[c] >= 1) =>
               events[c].onRetry = attemptCount[c] - 1
          /\ attemptCount[c] = 0 => events[c].onRetry = 0)
  /\ [][\A c \in Calls :
          /\ events'[c].onRetry # events[c].onRetry =>
               \/ events'[c] = NoEvents
               \/ /\ events'[c].onRetry = events[c].onRetry + 1
                  /\ events'[c].lastRetry.attempt = events[c].lastRetry.attempt + 1
                  /\ attemptCount'[c] = attemptCount[c]
                  /\ inner[c] = "running" /\ inner'[c] = "sleeping"
          /\ (attemptCount[c] >= 1 /\ attemptCount'[c] = attemptCount[c] + 1) =>
               /\ events[c].onRetry = attemptCount[c]
               /\ events[c].lastRetry.attempt = attemptCount[c]
               /\ events'[c] = events[c]]_vars

\* C32 witness: with attempts = 2 a call has failed three times; its second
\* Retry event carried attempt 2 of 2 and the call made three invocations.
C32_Witness ==
  \E c \in Calls :
    /\ options.retry.on /\ options.retry.attempts = 2
    /\ inner[c] = "finished" /\ attemptCount[c] = 3
    /\ events[c].onRetry = 2
    /\ events[c].lastRetry = [attempt |-> 2, maxAttempts |-> 2]

\* The calls of handle h that are executing, and those waiting in a queue.
RunningOn(h) == {k \in Calls : handles.call[h][k] = "running"}
QueuedOn(h) == {k \in Calls : handles.call[h][k] = "queued"}

\* C33: the bulkhead state belongs to the handle.  The counter of a handle's
\* bulkhead counts the executing calls of that handle, all of them and no others,
\* and its queue holds the waiting calls of that handle; a step of a call of one
\* handle leaves the bulkhead and the calls of every other handle as they are;
\* and a call is admitted, queued or rejected by the counts of its own handle.
C33_BulkheadPerHandle ==
  /\ [](\A h \in Handles :
          /\ handles.policy[h].active = Cardinality(RunningOn(h))
          /\ handles.policy[h].active <= handles.config[h].maxConcurrent
          /\ Len(handles.policy[h].queue) = Cardinality(QueuedOn(h))
          /\ \A i \in 1..Len(handles.policy[h].queue) :
               /\ handles.policy[h].queue[i][1] = h
               /\ handles.policy[h].queue[i][2] \in QueuedOn(h)
          /\ Len(handles.policy[h].queue) <= handles.config[h].maxQueue)
  /\ [][\A h \in Handles :
          /\ handles'.call[h] # handles.call[h] =>
               \A g \in Handles \ {h} :
                 /\ handles'.policy[g] = handles.policy[g]
                 /\ handles'.call[g] = handles.call[g]
          /\ \A k \in Calls :
               LET before == handles.call[h][k]
                   after == handles'.call[h][k]
                   full == Cardinality(RunningOn(h)) >= handles.config[h].maxConcurrent
                   queueFull == Cardinality(QueuedOn(h)) >= handles.config[h].maxQueue
               IN (before \in {"idle", "dequeued"} /\ after # before) =>
                    /\ after = "running" <=> ~full
                    /\ after = "queued" <=> (full /\ ~queueFull)
                    /\ after = "rejected" <=> (full /\ queueFull)]_vars

\* C33 witness: two handles with equal options, one slot and no queue; the first
\* has a call executing and has rejected another, and the second has admitted a
\* call all the same.
C33_Witness ==
  /\ handles # NoHandles
  /\ handles.config[1] = handles.config[2]
  /\ handles.config[1].maxConcurrent = 1 /\ handles.config[1].maxQueue = 0
  /\ handles.call[1][1] = "running" /\ handles.call[1][2] = "rejected"
  /\ handles.call[2][1] = "running"
  /\ handles.policy[1].active = 1 /\ handles.policy[2].active = 1

\* C34: after the timeout of a call has fired the operation is not invoked for
\* that call again, whether the timer fired during an attempt or during a
\* backoff sleep.
C34_NoAttemptAfterExpiry ==
  [][\A c \in Calls :
       (aborted[c] /\ aborted'[c]) => attemptCount'[c] = attemptCount[c]]_vars

\* C35: a call whose timeout fires while it waits for a slot (in the queue, or
\* taken off the queue and not yet executed again) never invokes the operation
\* and never holds a slot: when its turn comes its pipeline ends at once and the
\* counter of slots is left alone.
C35_ExpiredWaiter ==
  /\ [](\A c \in Calls :
          (aborted[c] /\ attemptCount[c] = 0) => (wasQueued[c] /\ ~holds[c]))
  /\ [][\A c \in Calls :
          /\ (aborted[c] /\ aborted'[c] /\ attemptCount[c] = 0) =>
               (attemptCount'[c] = 0 /\ ~holds'[c])
          /\ (aborted[c] /\ inner[c] = "dequeued" /\ inner'[c] # "dequeued") =>
               (inner'[c] = "finished" /\ active' = active /\ holds' = holds)]_vars

\* C35 witness: a call timed out in the queue, was taken off the queue when the
\* slot became free and ended without an invocation; the slot is free.
C35_Witness ==
  \E c \in Calls :
    /\ aborted[c] /\ wasQueued[c] /\ inner[c] = "finished"
    /\ attemptCount[c] = 0 /\ result[c].kind = "TimeoutError"
    /\ active = 0 /\ queue = <<>>

\* C36: the error a caller receives is normalized once.  Normalizing a canonical
\* error the caller received gives that same error back, and a RetryExhausted
\* the caller received does not carry another RetryExhausted as its lastError.
C36_NormalizationIdempotent ==
  \A c \in Calls :
    (outer[c] = "rejected" /\ result[c].kind \in CanonicalKinds) =>
      /\ transformCockatielError(result[c], ErrorConfig(options.retry.attempts)) = result[c]
      /\ result[c].kind = "RetryExhaustedError" =>
           result[c].lastError.kind # "RetryExhaustedError"

\* How often the metrics sink received the event called name for call c.
Occurrences(c, name) ==
  Cardinality({i \in 1..Len(events[c].order) : events[c].order[i] = name})

C38_NonRetryableStatusFirst ==
  (classified.verdict # "none" /\ classified.error.isError
     /\ classified.error.statusAt # "none") =>
    LET e == classified.error
        network == \/ e.code \in {"ECONNRESET", "ETIMEDOUT", "ECONNREFUSED", "ENETUNREACH"}
                   \/ e.message \in NetworkMessages
    IN /\ e.status \in {400, 401, 403, 404, 422} => classified.verdict = "non-retryable"
       /\ (e.status \notin {400, 401, 403, 404, 422} /\ e.status < 500) =>
            (classified.verdict = "retryable" <=> network)

\* C38 witness: an Error with response.status 404, code ECONNRESET and the
\* message "fetch failed" has been classified as non-retryable.
C38_Witness ==
  /\ classified.verdict = "non-retryable"
  /\ classified.error.isError
  /\ classified.error.statusAt = "response" /\ classified.error.status = 404
  /\ classified.error.code = "ECONNRESET"
  /\ classified.error.message = "fetch failed"

====
